---- MODULE Spec2Model ----
(***************************************************************************)
(* Model of the job-intel backend: the HTTP API of backend/app/main.py,    *)
(* the three MongoDB collections, and the LangGraph pipeline of            *)
(* backend/app/agent.py that run_agent_pipeline drives as a background     *)
(* task.  One action per handler / graph node.                             *)
(*                                                                         *)
(* Python values are modelled as follows.  None (and an absent document    *)
(* field read with .get) is the string NONE.  Strings that the code only   *)
(* compares or copies are TLA+ strings; strings the code builds by         *)
(* concatenation are sequences of their pieces.  A Python exception is     *)
(* the string of its text.                                                 *)
(***************************************************************************)
EXTENDS Integers, Sequences, FiniteSets, TLC

VARIABLES
    search_queries,  \* db["search_queries"]: _id -> document
    job_posts,       \* db["job_posts"]: documents in insertion order
    summaries,       \* db["summaries"]: documents in insertion order
    pc,              \* background tasks: _id -> position of run_agent_pipeline
    state,           \* the AgentState threaded through the graph, per run
    trace,           \* per run: the graph nodes executed so far, in order
    statusLog,       \* per run: the status values the run has written
    raised,          \* per run: text of the exception the graph raised, or NONE
    lastCall,        \* the last direct call of run_agent_pipeline and its outcome
    failureLog,      \* per run: the failure descriptors its stages produced
    lastPoll         \* the last GET /api/search-jobs/{id} and its response

vars == <<search_queries, job_posts, summaries, pc, state, trace, statusLog,
          raised, lastCall, failureLog, lastPoll>>

----------------------------------------------------------------------------
(* Bounds and values                                                       *)

NONE == "<None>"

\* How many requests the API accepts in the concurrent specification.
MaxQueries == 2

\* The longest result list the search adapter returns in the model
\* (the adapter is asked for max_results=15).
MaxResults == 6

\* ObjectId(): the n-th generated identifier, a 24-hex-digit string.
OidOf == << "65f000000000000000000001", "65f000000000000000000002",
            "65f000000000000000000003", "65f000000000000000000004" >>

\* A well-formed identifier that is never generated, and a malformed one.
UnknownId == "65f0000000000000000000ff"
MalformedId == "not-an-id"

HexIds == {OidOf[i] : i \in 1..Len(OidOf)} \cup {UnknownId}

\* ObjectId.is_valid(s): s is a 24-character hexadecimal string.
is_valid(s) == s \in HexIds

SearchRequests ==
    { [job_title |-> "Backend Engineer", experience_level |-> "Mid",
       location |-> "Remote"] }

StatusOrder == << "PENDING", "PLANNING", "SEARCHING", "CRAWLING", "PARSING",
                  "ANALYZING", "PERSISTING", "COMPLETE" >>

Rank(s) == CHOOSE i \in 1..Len(StatusOrder) : StatusOrder[i] = s

Nodes == {"planner", "search", "refine_query", "crawl_extract", "job_parsing",
          "analysis", "persist", "finish"}

IsPrefix(s, t) == Len(s) <= Len(t) /\ SubSeq(t, 1, Len(s)) = s

Count(seq, x) == Cardinality({i \in 1..Len(seq) : seq[i] = x})

----------------------------------------------------------------------------
(* Persistence helpers (agent.py)                                          *)

\* update_status_in_db that never stores the message.
update_status_in_db_no_message(sq, id, status, error_message) ==
    IF ~is_valid(id) THEN sq
    ELSE IF id \notin DOMAIN sq THEN sq
    ELSE [sq EXCEPT ![id].status = status, ![id].error_message = NONE]

\* update_status_in_db with update_one(.., upsert=True).
update_status_in_db_upsert(sq, id, status, error_message) ==
    IF ~is_valid(id) THEN sq
    ELSE IF id \notin DOMAIN sq
    THEN [x \in DOMAIN sq \cup {id} |->
             IF x = id
             THEN [ job_title |-> "", experience_level |-> "", location |-> "",
                    status |-> status, created_at |-> 0,
                    error_message |-> error_message, failed_urls |-> << >>,
                    time_filter |-> NONE ]
             ELSE sq[x]]
    ELSE [sq EXCEPT ![id].status = status, ![id].error_message = error_message]

\* update_status_in_db without the $unset: a message stays until replaced.
update_status_in_db_keeping(sq, id, status, error_message) ==
    IF ~is_valid(id) THEN sq
    ELSE IF id \notin DOMAIN sq THEN sq
    ELSE IF error_message # NONE
         THEN [sq EXCEPT ![id].status = status,
                         ![id].error_message = error_message]
         ELSE [sq EXCEPT ![id].status = status]

\* update_status_in_db that replaces the document's failure list as well.
update_status_in_db_resetting(sq, id, status, error_message) ==
    IF ~is_valid(id) THEN sq
    ELSE IF id \notin DOMAIN sq THEN sq
    ELSE [sq EXCEPT ![id].status = status,
                    ![id].error_message = error_message,
                    ![id].failed_urls = << >>]

\* update_one({"_id": id}, ...) without upsert: a filter that matches no
\* document changes nothing.
update_status_in_db(sq, id, status, error_message) ==
    IF ~is_valid(id) THEN sq
    ELSE IF id \notin DOMAIN sq THEN sq
    ELSE IF error_message # NONE
         THEN [sq EXCEPT ![id].status = status,
                         ![id].error_message = error_message]
         ELSE [sq EXCEPT ![id].status = status,
                         ![id].error_message = NONE]   \* $unset

\* update_failures_in_db storing the newest descriptor first.
update_failures_in_db_reversed(sq, id, failures) ==
    IF ~is_valid(id) THEN sq
    ELSE IF id \notin DOMAIN sq THEN sq
    ELSE [sq EXCEPT ![id].failed_urls =
             [k \in 1..Len(failures) |-> failures[Len(failures) + 1 - k]]]

\* update_failures_in_db with the filter {} in place of {"_id": id}.
update_failures_in_db_unfiltered(sq, id, failures) ==
    IF ~is_valid(id) THEN sq
    ELSE [x \in DOMAIN sq |-> [sq[x] EXCEPT !.failed_urls = failures]]

\* update_failures_in_db that stores only the newest descriptor.
update_failures_in_db_newest(sq, id, failures) ==
    IF ~is_valid(id) THEN sq
    ELSE IF id \notin DOMAIN sq THEN sq
    ELSE [sq EXCEPT ![id].failed_urls =
             IF failures = << >> THEN << >> ELSE << failures[Len(failures)] >>]

update_failures_in_db(sq, id, failures) ==
    IF ~is_valid(id) THEN sq
    ELSE IF id \notin DOMAIN sq THEN sq
    ELSE [sq EXCEPT ![id].failed_urls = failures]

\* The status log of a run records every update_status_in_db call it makes.
Logged(id, status) == [statusLog EXCEPT ![id] = Append(@, status)]

----------------------------------------------------------------------------
(* What the external services may answer                                   *)

UrlOf == << "https://jobs/1", "https://jobs/2", "https://jobs/3",
            "https://jobs/4", "https://jobs/5", "https://jobs/6",
            "https://jobs/7", "https://jobs/8" >>

PageApplyUrl == "https://apply/page"   \* href of a page's "Apply" anchor
LlmApplyUrl == "https://apply/llm"     \* apply_url the language model reports

\* One element of Tavily's "results", by kind, at position i of the list.
\*   apply   - a dict with url and text whose HTML has an "Apply" anchor
\*   plain   - a dict with url and text without such an anchor
\*   no_text - a dict with a url but no text in any of the four fields
\*   no_url  - a dict with text but no url
\*   bad     - a dict whose text BeautifulSoup cannot take (it raises)
\*   other   - not a dict
SearchResult(kind, i) ==
    [ is_dict  |-> kind # "other",
      url      |-> IF kind \in {"no_url", "other"} THEN NONE ELSE UrlOf[i],
      raw_text |-> CASE kind \in {"apply", "plain", "no_url"} -> "html"
                     [] kind = "bad" -> "unparsable"
                     [] OTHER -> "",
      href     |-> IF kind = "apply" THEN PageApplyUrl ELSE NONE ]

\* A result list of length n whose kinds repeat the pattern p.
ResultList(n, p) == [i \in 1..n |-> SearchResult(p[((i - 1) % Len(p)) + 1], i)]

ResultPatterns ==
    { <<"apply">>, <<"plain">>, <<"no_text">>, <<"other">>, <<"bad">>,
      <<"apply", "bad", "plain", "other", "no_url", "no_text">> }

\* tavily_client.search(...): it raises, or returns a response.
SearchError == [exc |-> "tavily down", results |-> << >>]

SearchResponses ==
    {SearchError} \cup
    { [exc |-> NONE, results |-> ResultList(n, p)] :
        n \in 0..MaxResults, p \in ResultPatterns }

\* The coarse answers used when several runs interleave.
FewSearchResponses ==
    { SearchError,
      [exc |-> NONE, results |-> ResultList(MaxResults, <<"apply", "plain">>)] }

\* llm.invoke(...) in job_parsing, per page: it raises, or the JSON it returns.
ParseReply(kind) ==
    [ exc            |-> IF kind = "raise" THEN "llm down" ELSE NONE,
      is_job_posting |-> kind \notin {"raise", "not_job"},
      is_active      |-> kind \notin {"raise", "not_job", "closed"},
      title          |-> IF kind = "null_title" THEN NONE ELSE "title",
      apply_url      |-> CASE kind \in {"job_url", "closed"} -> LlmApplyUrl
                           [] kind = "job_empty" -> ""
                           [] kind = "job_na" -> "N/A"
                           [] OTHER -> NONE,
      source_site    |-> IF kind = "job_url" THEN "greenhouse.io" ELSE NONE ]

\* The replies to the pages of one run, in page order, repeat a pattern.
ParsePatterns ==
    { <<"job_url">>, <<"job_none">>, <<"job_empty">>, <<"job_na">>,
      <<"not_job">>, <<"raise">>, <<"null_title">>,
      <<"job_url", "raise", "job_none", "closed", "job_na", "job_empty">> }

FewParsePatterns == { <<"job_none">>, <<"raise", "job_url">> }

ParseReplies(p, n) == [j \in 1..n |-> ParseReply(p[((j - 1) % Len(p)) + 1])]

\* llm.invoke(...) in analysis: it raises, or the JSON it returns.
\* well_typed is FALSE when a value has a type Summary rejects.
AnalysisReply(kind) ==
    [ exc             |-> IF kind = "raise" THEN "llm down" ELSE NONE,
      has_keys        |-> kind \in {"ok", "bad_types"},
      top_skills      |-> IF kind = "ok" THEN <<"python">> ELSE << >>,
      top_tech_stacks |-> IF kind = "ok" THEN <<"aws">> ELSE << >>,
      summary_text    |-> IF kind = "ok" THEN << "market" >> ELSE << >>,
      well_typed      |-> kind # "bad_types" ]

AnalysisReplies == {AnalysisReply(k) : k \in {"ok", "no_json", "bad_types", "raise"}}

FewAnalysisReplies == {AnalysisReply(k) : k \in {"ok", "raise"}}

\* Which database insert of persist fails, if any.
InsertFailures == {NONE, "insert_many", "insert_one"}

NoInsertFailure == {NONE}

----------------------------------------------------------------------------
(* Initial state                                                           *)

DefaultSearchAttempts == 0    \* search_record.get("search_attempts", 0)
DefaultMinResults == 5        \* search_record.get("min_results_threshold", 5)
MaxSearchAttempts == 3        \* should_refine_search: attempts < 3

EmptyDict ==
    [ empty |-> TRUE, top_skills |-> << >>, top_tech_stacks |-> << >>,
      summary_text |-> << >>, well_typed |-> TRUE ]

\* The AgentState of a task that has not started.
NoState ==
    [ job_title |-> "", experience_level |-> "", location |-> "",
      search_query_string |-> << >>, search_attempts |-> 0,
      min_results_threshold |-> 0, search_results |-> << >>,
      crawled_pages |-> << >>, failed_urls |-> << >>, job_posts |-> << >>,
      analysis |-> EmptyDict, time_filter |-> NONE ]

NoCall == [id |-> NONE, outcome |-> NONE]

\* StatusResponse.results = None
NoResults == [present |-> FALSE, job_posts |-> << >>, summaries |-> << >>]

\* HTTP status codes of GET /api/search-jobs/{id}.
HTTP_200 == 200
HTTP_400 == 400
HTTP_404 == 404

\* No request was polled yet.  step is the handler's position: "none",
\* "job_posts" and "summaries" (the finds still to do), "responded".
NoPoll == [ id |-> NONE, step |-> "none", code |-> 0, status |-> NONE,
            message |-> NONE, results |-> NoResults, failed_urls |-> << >> ]

Init ==
    /\ search_queries = << >>
    /\ job_posts = << >>
    /\ summaries = << >>
    /\ pc = << >>
    /\ state = << >>
    /\ trace = << >>
    /\ statusLog = << >>
    /\ raised = << >>
    /\ lastCall = NoCall
    /\ failureLog = << >>
    /\ lastPoll = NoPoll

\* f extended with (or overwritten at) key k.
Put(f, k, v) == [x \in DOMAIN f \cup {k} |-> IF x = k THEN v ELSE f[x]]

----------------------------------------------------------------------------
(* POST /api/search-jobs (main.py)                                         *)

\* SearchQuery(**request): _id from ObjectId(), status "PENDING".
SearchQuery(request, n) ==
    [ job_title |-> request.job_title,
      experience_level |-> request.experience_level,
      location |-> request.location,
      status |-> "PENDING",
      created_at |-> n,
      error_message |-> NONE,     \* absent
      failed_urls |-> << >>,      \* absent: every reader uses .get(.., [])
      time_filter |-> NONE ]      \* absent: SearchQuery has no such field

\* search_jobs without the insert_one: the task is queued for a record that
\* was never stored.
search_jobs_unsaved(request) ==
    LET n == Cardinality(DOMAIN pc) + 1
        search_query_id == OidOf[n]
    IN  /\ n <= Len(OidOf)
        /\ pc' = Put(pc, search_query_id, "start")
        /\ state' = Put(state, search_query_id, NoState)
        /\ trace' = Put(trace, search_query_id, << >>)
        /\ statusLog' = Put(statusLog, search_query_id, << >>)
        /\ raised' = Put(raised, search_query_id, NONE)
        /\ failureLog' = Put(failureLog, search_query_id, << >>)
        /\ UNCHANGED <<search_queries, job_posts, summaries, lastCall, lastPoll>>

search_jobs(request) ==
    LET n == Cardinality(DOMAIN pc) + 1
        search_query_id == OidOf[n]
    IN  /\ n <= Len(OidOf)
        /\ search_queries' = Put(search_queries, search_query_id,
                                 SearchQuery(request, n))
        \* background_tasks.add_task(run_agent_pipeline, search_query_id)
        /\ pc' = Put(pc, search_query_id, "start")
        /\ state' = Put(state, search_query_id, NoState)
        /\ trace' = Put(trace, search_query_id, << >>)
        /\ statusLog' = Put(statusLog, search_query_id, << >>)
        /\ raised' = Put(raised, search_query_id, NONE)
        /\ failureLog' = Put(failureLog, search_query_id, << >>)
        /\ UNCHANGED <<job_posts, summaries, lastCall, lastPoll>>

----------------------------------------------------------------------------
(* run_agent_pipeline (agent.py): entry                                    *)

initial_state(search_record) ==
    [ job_title |-> search_record.job_title,
      experience_level |-> search_record.experience_level,
      location |-> search_record.location,
      search_query_string |-> << >>,
      search_attempts |-> DefaultSearchAttempts,
      min_results_threshold |-> DefaultMinResults,
      search_results |-> << >>,
      crawled_pages |-> << >>,
      failed_urls |-> << >>,
      job_posts |-> << >>,
      analysis |-> EmptyDict,
      time_filter |-> search_record.time_filter ]

\* The background task starts: find_one, then the not-found return or the
\* initial state of the graph.
run_agent_pipeline(id) ==
    /\ id \in DOMAIN pc
    /\ pc[id] = "start"
    /\ IF id \notin DOMAIN search_queries
       THEN /\ search_queries' = update_status_in_db(search_queries, id, "FAILED",
                                                     "Search query not found.")
            /\ statusLog' = Logged(id, "FAILED")
            /\ pc' = [pc EXCEPT ![id] = "returned"]
            /\ UNCHANGED state
       ELSE /\ state' = [state EXCEPT ![id] = initial_state(search_queries[id])]
            /\ pc' = [pc EXCEPT ![id] = "planner"]
            /\ UNCHANGED <<search_queries, statusLog>>
    /\ UNCHANGED <<job_posts, summaries, trace, raised, lastCall,
                   failureLog, lastPoll>>

\* run_agent_pipeline called with an identifier the API did not hand out:
\* ObjectId(search_query_id) raises on a malformed one, before any try.
call_run_agent_pipeline(id) ==
    /\ id \notin DOMAIN pc
    /\ IF ~is_valid(id)
       THEN /\ lastCall' = [id |-> id, outcome |-> "raised"]
            /\ UNCHANGED search_queries
       ELSE /\ id \notin DOMAIN search_queries
            /\ search_queries' = update_status_in_db(search_queries, id, "FAILED",
                                                     "Search query not found.")
            /\ lastCall' = [id |-> id, outcome |-> "returned"]
    /\ UNCHANGED <<job_posts, summaries, pc, state, trace, statusLog, raised,
                   failureLog, lastPoll>>

----------------------------------------------------------------------------
(* Graph nodes (agent.py)                                                  *)

Truthy(v) == v \notin {NONE, ""}

\* Python's `a or b` on strings and None.
Or(a, b) == IF Truthy(a) THEN a ELSE b

\* The time_filter values a stored record may carry (None included).
TimeFilters ==
    { NONE, "", "24h", "7d", "30d", " 24H ", "7D", "30D ", "\t7d", "1y",
      "24 h", "d7", "24" }

\* The characters of a time filter.
Chars(time_filter) ==
    CASE time_filter = "24h"   -> << "2", "4", "h" >>
      [] time_filter = "7d"    -> << "7", "d" >>
      [] time_filter = "30d"   -> << "3", "0", "d" >>
      [] time_filter = " 24H " -> << " ", "2", "4", "H", " " >>
      [] time_filter = "7D"    -> << "7", "D" >>
      [] time_filter = "30D "  -> << "3", "0", "D", " " >>
      [] time_filter = "\t7d"  -> << "\t", "7", "d" >>
      [] time_filter = "1y"    -> << "1", "y" >>
      [] time_filter = "24 h"  -> << "2", "4", " ", "h" >>
      [] time_filter = "d7"    -> << "d", "7" >>
      [] time_filter = "24"    -> << "2", "4" >>
      [] OTHER                 -> << >>

Whitespace == {" ", "\t", "\n", "\r"}

\* str.strip(): whitespace removed at both ends, kept inside.
RECURSIVE strip(_)
strip(chars) ==
    IF chars = << >> THEN chars
    ELSE IF Head(chars) \in Whitespace THEN strip(Tail(chars))
    ELSE IF chars[Len(chars)] \in Whitespace
         THEN strip(SubSeq(chars, 1, Len(chars) - 1))
    ELSE chars

\* str.lower(), character by character.
lower(chars) ==
    [i \in 1..Len(chars) |->
        CASE chars[i] = "H" -> "h"
          [] chars[i] = "D" -> "d"
          [] chars[i] = "Y" -> "y"
          [] OTHER -> chars[i]]

\* str(time_filter).strip(), without the .lower().
normalized_filter_cased(time_filter) == strip(Chars(time_filter))

\* str(time_filter).strip().lower()
normalized_filter(time_filter) == lower(strip(Chars(time_filter)))

time_filter_param(time_filter) ==
    IF ~Truthy(time_filter) THEN << >>
    ELSE CASE normalized_filter(time_filter) = Chars("24h") -> << "&tbs=qdr:d" >>
           [] normalized_filter(time_filter) = Chars("7d") -> << "&tbs=qdr:w" >>
           [] normalized_filter(time_filter) = Chars("30d") -> << "&tbs=qdr:m" >>
           [] OTHER -> << >>

\* The planner's query, as the sequence of the pieces it concatenates.
planner_query(st) ==
    << "\"", st.job_title, "\" job posting with ", st.experience_level,
       " experience in ", st.location,
       " site:greenhouse.io OR site:lever.co OR site:linkedin.com/jobs" >>
    \o time_filter_param(st.time_filter)

RefineClause ==
    " remote OR hybrid OR 'work from home' opportunities, include startup and enterprise listings."

\* A node is entered: it is the run's position, and the trace records it.
Enter(id, node) ==
    /\ id \in DOMAIN pc
    /\ pc[id] = node
    /\ trace' = [trace EXCEPT ![id] = Append(@, node)]

planner_node(id) ==
    /\ Enter(id, "planner")
    /\ search_queries' = update_status_in_db(search_queries, id, "PLANNING", NONE)
    /\ statusLog' = Logged(id, "PLANNING")
    \* search_attempts and min_results_threshold are already in the state the
    \* run seeded, so .get(.., 0) and setdefault(.., 5) leave them as they are
    /\ state' = [state EXCEPT ![id].search_query_string = planner_query(state[id])]
    /\ pc' = [pc EXCEPT ![id] = "search"]
    /\ UNCHANGED <<job_posts, summaries, raised, lastCall, failureLog, lastPoll>>

\* should_refine_search with `attempts <= 3`.
should_refine_search_one_more(st) ==
    IF Len(st.search_results) >= st.min_results_threshold THEN "crawl_extract"
    ELSE IF st.search_attempts <= MaxSearchAttempts THEN "refine_query"
    ELSE "finish"

\* should_refine_search with `len(results) > min_results`.
should_refine_search_strict(st) ==
    IF Len(st.search_results) > st.min_results_threshold THEN "crawl_extract"
    ELSE IF st.search_attempts < MaxSearchAttempts THEN "refine_query"
    ELSE "finish"

should_refine_search(st) ==
    IF Len(st.search_results) >= st.min_results_threshold THEN "crawl_extract"
    ELSE IF st.search_attempts < MaxSearchAttempts THEN "refine_query"
    ELSE "finish"

search_node(id, response) ==
    LET st == state[id]
        failed == Append(st.failed_urls, << "search_error:", response.exc >>)
        next_state ==
            IF response.exc = NONE
            THEN [st EXCEPT !.search_attempts = @ + 1,
                            !.search_results = response.results]
            ELSE [st EXCEPT !.search_attempts = @ + 1,
                            !.search_results = << >>,
                            !.failed_urls = failed]
        searching == update_status_in_db(search_queries, id, "SEARCHING", NONE)
    IN  /\ Enter(id, "search")
        /\ statusLog' = Logged(id, "SEARCHING")
        /\ search_queries' = IF response.exc = NONE THEN searching
                             ELSE update_failures_in_db(searching, id, failed)
        /\ state' = [state EXCEPT ![id] = next_state]
        /\ pc' = [pc EXCEPT ![id] = should_refine_search(next_state)]
        /\ failureLog' = IF response.exc = NONE THEN failureLog
                          ELSE [failureLog EXCEPT
                                  ![id] = Append(@, << "search_error:", response.exc >>)]
        /\ UNCHANGED <<job_posts, summaries, raised, lastCall, lastPoll>>

\* refine_query_node reporting itself as a planning stage.
refine_query_node_replanning(id) ==
    /\ Enter(id, "refine_query")
    /\ search_queries' = update_status_in_db(search_queries, id, "PLANNING", NONE)
    /\ statusLog' = Logged(id, "PLANNING")
    /\ state' = [state EXCEPT ![id].search_query_string = Append(@, RefineClause)]
    /\ pc' = [pc EXCEPT ![id] = "search"]
    /\ UNCHANGED <<job_posts, summaries, raised, lastCall, failureLog, lastPoll>>

refine_query_node(id) ==
    /\ Enter(id, "refine_query")
    /\ state' = [state EXCEPT ![id].search_query_string = Append(@, RefineClause)]
    /\ pc' = [pc EXCEPT ![id] = "search"]
    /\ UNCHANGED <<search_queries, job_posts, summaries, statusLog, raised, lastCall,
                   failureLog, lastPoll>>

\* finish_node reporting the end of the run itself.
finish_node_reporting(id) ==
    /\ Enter(id, "finish")
    /\ search_queries' = update_status_in_db(search_queries, id, "COMPLETE", NONE)
    /\ statusLog' = Logged(id, "COMPLETE")
    /\ pc' = [pc EXCEPT ![id] = "end"]
    /\ UNCHANGED <<job_posts, summaries, state, raised, lastCall, failureLog,
                   lastPoll>>

finish_node(id) ==
    /\ Enter(id, "finish")
    /\ pc' = [pc EXCEPT ![id] = "end"]
    /\ UNCHANGED <<search_queries, job_posts, summaries, state, statusLog, raised,
                   lastCall, failureLog, lastPoll>>

\* The loop body recording a failure for every result it does not crawl.
crawl_result_reporting(result, acc) ==
    IF ~result.is_dict
    THEN [acc EXCEPT ![2] = Append(@, << "result", ":", "not a dict" >>)]
    ELSE IF ~Truthy(result.url) \/ ~Truthy(result.raw_text)
    THEN [acc EXCEPT ![2] = Append(@, << "result", ":", "no url or text" >>)]
    ELSE IF result.raw_text = "unparsable"
         THEN [acc EXCEPT ![2] = Append(@, << result.url, ":", "soup error" >>)]
    ELSE [acc EXCEPT ![1] = Append(@, [url |-> result.url,
                                       raw_text |-> result.raw_text,
                                       apply_url |-> result.href])]

\* One iteration of crawl_extract_node's loop: acc is <<crawled_pages,
\* failed_urls>> so far.
crawl_result(result, acc) ==
    IF ~result.is_dict THEN acc                       \* logged and skipped
    ELSE IF ~Truthy(result.url) \/ ~Truthy(result.raw_text) THEN acc  \* continue
    ELSE IF result.raw_text = "unparsable"            \* BeautifulSoup raises
         \* f"{result}:{exc}": the result's text is stood for by its url
         THEN [acc EXCEPT ![2] = Append(@, << result.url, ":", "soup error" >>)]
    ELSE [acc EXCEPT ![1] = Append(@, [url |-> result.url,
                                       raw_text |-> result.raw_text,
                                       apply_url |-> result.href])]

RECURSIVE crawl_loop(_, _, _)
crawl_loop(results, i, acc) ==
    IF i > Len(results) THEN acc
    ELSE crawl_loop(results, i + 1, crawl_result(results[i], acc))

\* is_crawl_sufficient that never takes the finish branch.
is_crawl_sufficient_always(st) == "job_parsing"

is_crawl_sufficient(st) ==
    IF st.crawled_pages # << >> THEN "job_parsing" ELSE "finish"

crawl_extract_node(id) ==
    LET st == state[id]
        out == crawl_loop(st.search_results, 1, << << >>, st.failed_urls >>)
        next_state == [st EXCEPT !.crawled_pages = out[1], !.failed_urls = out[2]]
        crawling == update_status_in_db(search_queries, id, "CRAWLING", NONE)
    IN  /\ Enter(id, "crawl_extract")
        /\ statusLog' = Logged(id, "CRAWLING")
        /\ search_queries' = IF out[2] # << >>
                             THEN update_failures_in_db(crawling, id, out[2])
                             ELSE crawling
        /\ state' = [state EXCEPT ![id] = next_state]
        /\ pc' = [pc EXCEPT ![id] = is_crawl_sufficient(next_state)]
        /\ failureLog' = [failureLog EXCEPT
               ![id] = @ \o crawl_loop(st.search_results, 1, << << >>, << >> >>)[2]]
        /\ UNCHANGED <<job_posts, summaries, raised, lastCall, lastPoll>>

\* One iteration of job_parsing_node's loop: acc is <<job_posts, failed_urls,
\* wrote>>, wrote telling whether update_failures_in_db was called.
parse_page(page, reply, acc) ==
    IF ~Truthy(page.raw_text) THEN acc
    ELSE IF reply.exc # NONE
         THEN [acc EXCEPT
                 ![2] = Append(@, << "parse_error:", page.url, ":", reply.exc >>),
                 ![3] = TRUE]
    ELSE IF reply.is_job_posting /\ reply.is_active
         THEN [acc EXCEPT
                 ![1] = Append(@, [ title |-> reply.title,
                                    apply_url |-> Or(reply.apply_url, page.apply_url),
                                    source_site |-> Or(reply.source_site, page.url) ])]
    ELSE acc

RECURSIVE parse_loop(_, _, _, _)
parse_loop(pages, replies, j, acc) ==
    IF j > Len(pages) THEN acc
    ELSE parse_loop(pages, replies, j + 1, parse_page(pages[j], replies[j], acc))

\* The filter without the "" and "N/A" cases.
actionable_not_none(job) == job.apply_url # NONE

actionable(job) == job.apply_url \notin {NONE, "", "N/A"}

filtered_job_posts(posts) == SelectSeq(posts, actionable)

job_parsing_node(id, pattern) ==
    LET st == state[id]
        replies == ParseReplies(pattern, Len(st.crawled_pages))
        out == parse_loop(st.crawled_pages, replies, 1,
                          << << >>, st.failed_urls, FALSE >>)
        parsing == update_status_in_db(search_queries, id, "PARSING", NONE)
    IN  /\ Enter(id, "job_parsing")
        /\ statusLog' = Logged(id, "PARSING")
        /\ search_queries' = IF out[3]
                             THEN update_failures_in_db(parsing, id, out[2])
                             ELSE parsing
        /\ state' = [state EXCEPT ![id].job_posts = filtered_job_posts(out[1]),
                                  ![id].failed_urls = out[2]]
        /\ pc' = [pc EXCEPT ![id] = "analysis"]
        /\ failureLog' = [failureLog EXCEPT
               ![id] = @ \o parse_loop(st.crawled_pages, replies, 1,
                                       << << >>, << >>, FALSE >>)[2]]
        /\ UNCHANGED <<job_posts, summaries, raised, lastCall, lastPoll>>

\* parsed.get(key, default) on the model's JSON object.
Get(parsed, key, default) == IF parsed.has_keys THEN parsed[key] ELSE default

NoPostingsAnalysis ==
    [ empty |-> FALSE, top_skills |-> << >>, top_tech_stacks |-> << >>,
      summary_text |-> << "No job postings available for analysis." >>,
      well_typed |-> TRUE ]

\* The except clause's analysis without the "Analysis failed: " prefix.
failed_analysis_bare(exc) ==
    [ empty |-> FALSE, top_skills |-> << >>, top_tech_stacks |-> << >>,
      summary_text |-> << exc >>, well_typed |-> TRUE ]

\* The analysis the except clause stores: f"Analysis failed: {exc}".
failed_analysis(exc) ==
    [ empty |-> FALSE, top_skills |-> << >>, top_tech_stacks |-> << >>,
      summary_text |-> << "Analysis failed: ", exc >>, well_typed |-> TRUE ]

analysis_node(id, reply) ==
    LET st == state[id]
        failed == Append(st.failed_urls, << "analysis_error:", reply.exc >>)
        analyzing == update_status_in_db(search_queries, id, "ANALYZING", NONE)
    IN  /\ Enter(id, "analysis")
        /\ statusLog' = Logged(id, "ANALYZING")
        /\ IF st.job_posts = << >>
           THEN /\ state' = [state EXCEPT ![id].analysis = NoPostingsAnalysis]
                /\ search_queries' = analyzing
           ELSE IF reply.exc = NONE
           THEN /\ state' = [state EXCEPT ![id].analysis =
                      [ empty |-> FALSE,
                        top_skills |-> Get(reply, "top_skills", << >>),
                        top_tech_stacks |-> Get(reply, "top_tech_stacks", << >>),
                        summary_text |-> Get(reply, "summary_text", << >>),
                        well_typed |-> reply.well_typed ]]
                /\ search_queries' = analyzing
           ELSE /\ state' = [state EXCEPT
                      ![id].analysis = failed_analysis(reply.exc),
                      ![id].failed_urls = failed]
                /\ search_queries' = update_failures_in_db(analyzing, id, failed)
        /\ pc' = [pc EXCEPT ![id] = "persist"]
        /\ failureLog' = IF st.job_posts = << >> \/ reply.exc = NONE THEN failureLog
                          ELSE [failureLog EXCEPT
                                  ![id] = Append(@, << "analysis_error:", reply.exc >>)]
        /\ UNCHANGED <<job_posts, summaries, raised, lastCall, lastPoll>>

\* JobPost built without the run's identifier.
JobPost_unowned(id, job) ==
    [ search_query_id |-> "", title |-> job.title,
      apply_url |-> Or(job.apply_url, ""), source_site |-> job.source_site ]

\* JobPost(search_query_id=.., title=job.get("title", ""), ..).model_dump()
JobPost(id, job) ==
    [ search_query_id |-> id, title |-> job.title,
      apply_url |-> Or(job.apply_url, ""), source_site |-> job.source_site ]

Summary(id, analysis) ==
    [ search_query_id |-> id, top_skills |-> analysis.top_skills,
      top_tech_stacks |-> analysis.top_tech_stacks,
      summary_text |-> analysis.summary_text ]

\* The Summary built and inserted inside the loop over the job posts.
summary_documents_per_post(id, st) ==
    [i \in 1..Len(st.job_posts) |-> Summary(id, st.analysis)]

\* The Summary documents persist_node inserts: one if the analysis is not {}.
summary_documents(id, st) ==
    IF ~st.analysis.empty THEN << Summary(id, st.analysis) >> ELSE << >>

\* The exception persist_node raises, if any: pydantic rejects a None title
\* and an ill-typed analysis value; an insert may fail.
persist_exception(st, failure) ==
    IF \E i \in 1..Len(st.job_posts) : st.job_posts[i].title = NONE
    THEN "JobPost validation error"
    ELSE IF st.job_posts # << >> /\ failure = "insert_many"
    THEN "insert_many failed"
    ELSE IF ~st.analysis.empty /\ ~st.analysis.well_typed
    THEN "Summary validation error"
    ELSE IF ~st.analysis.empty /\ failure = "insert_one"
    THEN "insert_one failed"
    ELSE NONE

\* persist_node, and run_agent_pipeline's except clause when it raises.
persist_node(id, failure) ==
    LET st == state[id]
        exc == persist_exception(st, failure)
        job_post_documents ==
            [i \in 1..Len(st.job_posts) |-> JobPost(id, st.job_posts[i])]
        persisting == update_status_in_db(search_queries, id, "PERSISTING", NONE)
    IN  /\ Enter(id, "persist")
        /\ job_posts' =
               IF exc \in {"JobPost validation error", "insert_many failed"}
               THEN job_posts
               ELSE job_posts \o job_post_documents
        /\ summaries' =
               IF exc = NONE
               THEN summaries \o summary_documents(id, st)
               ELSE summaries
        /\ IF exc = NONE
           THEN /\ search_queries' = persisting
                /\ statusLog' = Logged(id, "PERSISTING")
                /\ pc' = [pc EXCEPT ![id] = "end"]
                /\ UNCHANGED raised
           ELSE /\ search_queries' = update_status_in_db(persisting, id, "FAILED", exc)
                /\ statusLog' = [statusLog EXCEPT
                                   ![id] = Append(Append(@, "PERSISTING"), "FAILED")]
                /\ pc' = [pc EXCEPT ![id] = "returned"]
                /\ raised' = [raised EXCEPT ![id] = exc]
        /\ UNCHANGED <<state, lastCall,
                   failureLog, lastPoll>>

\* run_agent_pipeline returning after the graph without the COMPLETE write.
pipeline_completed_silent(id) ==
    /\ id \in DOMAIN pc
    /\ pc[id] = "end"
    /\ pc' = [pc EXCEPT ![id] = "returned"]
    /\ UNCHANGED <<search_queries, job_posts, summaries, state, trace, statusLog,
                   raised, lastCall, failureLog, lastPoll>>

\* run_agent_pipeline after compiled_graph.invoke returned.
pipeline_completed(id) ==
    LET failures == state[id].failed_urls
        stored == IF failures # << >>
                  THEN update_failures_in_db(search_queries, id, failures)
                  ELSE search_queries
    IN  /\ id \in DOMAIN pc
        /\ pc[id] = "end"
        /\ search_queries' = update_status_in_db(stored, id, "COMPLETE", NONE)
        /\ statusLog' = Logged(id, "COMPLETE")
        /\ pc' = [pc EXCEPT ![id] = "returned"]
        /\ UNCHANGED <<job_posts, summaries, state, trace, raised, lastCall,
                   failureLog, lastPoll>>

----------------------------------------------------------------------------
(* GET /api/search-jobs/{search_query_id} (main.py)                        *)

PollIds == {OidOf[1], UnknownId, MalformedId}

\* raise HTTPException(status_code=code, detail=detail)
HTTPException(id, code, detail) ==
    [ id |-> id, step |-> "responded", code |-> code, status |-> NONE,
      message |-> detail, results |-> NoResults, failed_urls |-> << >> ]

\* StatusResponse(status=.., message=.., failed_urls=failed_urls or None)
StatusResponse(id, status, message, failed_urls) ==
    [ id |-> id, step |-> "responded", code |-> HTTP_200, status |-> status,
      message |-> message, results |-> NoResults, failed_urls |-> failed_urls ]

\* db[collection].find({"search_query_id": id}), in insertion order.
find(collection, id) ==
    SelectSeq(collection, LAMBDA doc : doc.search_query_id = id)

\* What the handler does up to its first find on job_posts: the response,
\* or the handler waiting to read the results of a COMPLETE query.
status_check(sq, search_query_id, with_results) ==
    IF ~is_valid(search_query_id)
    THEN HTTPException(search_query_id, HTTP_400, "Invalid search_query_id")
    ELSE IF search_query_id \notin DOMAIN sq
    THEN HTTPException(search_query_id, HTTP_404, "Search query not found")
    ELSE LET search_query == sq[search_query_id]
             status_value == search_query.status
         IN  IF status_value \in with_results
             THEN [ StatusResponse(search_query_id, status_value, NONE,
                                   search_query.failed_urls)
                      EXCEPT !.step = "job_posts", !.code = 0 ]
             ELSE IF status_value = "FAILED"
             THEN StatusResponse(search_query_id, status_value,
                                 IF search_query.error_message # NONE
                                 THEN search_query.error_message
                                 ELSE "Job search failed.",
                                 search_query.failed_urls)
             ELSE StatusResponse(search_query_id, status_value, NONE,
                                 search_query.failed_urls)

\* The handler without its ObjectId.is_valid guard: find_one is reached
\* with an identifier no document has.
get_search_status_unvalidated(search_query_id) ==
    /\ lastPoll.step \in {"none", "responded"}
    /\ lastPoll' =
          IF search_query_id \notin DOMAIN search_queries
          THEN HTTPException(search_query_id, HTTP_404, "Search query not found")
          ELSE status_check(search_queries, search_query_id, {"COMPLETE"})
    /\ UNCHANGED <<search_queries, job_posts, summaries, pc, state, trace,
                   statusLog, raised, lastCall, failureLog>>

\* The handler returning results as soon as the run is persisting.
get_search_status_early(search_query_id) ==
    /\ lastPoll.step \in {"none", "responded"}
    /\ lastPoll' = status_check(search_queries, search_query_id,
                                {"PERSISTING", "COMPLETE"})
    /\ UNCHANGED <<search_queries, job_posts, summaries, pc, state, trace,
                   statusLog, raised, lastCall, failureLog>>

\* A poll arrives: validation, find_one, and the response of every status
\* but COMPLETE.
get_search_status(search_query_id) ==
    /\ lastPoll.step \in {"none", "responded"}
    /\ lastPoll' = status_check(search_queries, search_query_id, {"COMPLETE"})
    /\ UNCHANGED <<search_queries, job_posts, summaries, pc, state, trace,
                   statusLog, raised, lastCall, failureLog>>

\* The COMPLETE branch: db["job_posts"].find(..)
get_search_status_job_posts ==
    /\ lastPoll.step = "job_posts"
    /\ lastPoll' = [lastPoll EXCEPT
                       !.step = "summaries",
                       !.results.job_posts = find(job_posts, lastPoll.id)]
    /\ UNCHANGED <<search_queries, job_posts, summaries, pc, state, trace,
                   statusLog, raised, lastCall, failureLog>>

\* The COMPLETE branch: db["summaries"].find(..) and the response.
get_search_status_summaries ==
    /\ lastPoll.step = "summaries"
    /\ lastPoll' = [lastPoll EXCEPT
                       !.step = "responded",
                       !.code = HTTP_200,
                       !.results.present = TRUE,
                       !.results.summaries = find(summaries, lastPoll.id)]
    /\ UNCHANGED <<search_queries, job_posts, summaries, pc, state, trace,
                   statusLog, raised, lastCall, failureLog>>

----------------------------------------------------------------------------
(* Specifications                                                          *)

Submit == \E request \in SearchRequests : DOMAIN pc = {} /\ search_jobs(request)

DirectCall == \E id \in {UnknownId, MalformedId} : call_run_agent_pipeline(id)

Start == \E id \in DOMAIN pc : run_agent_pipeline(id)

Planner == \E id \in DOMAIN pc : planner_node(id)

Search == \E id \in DOMAIN pc : \E response \in SearchResponses :
              search_node(id, response)

Refine == \E id \in DOMAIN pc : refine_query_node(id)

Crawl == \E id \in DOMAIN pc : crawl_extract_node(id)

Parse == \E id \in DOMAIN pc : \E pattern \in ParsePatterns :
             job_parsing_node(id, pattern)

Analysis == \E id \in DOMAIN pc : \E reply \in AnalysisReplies :
                analysis_node(id, reply)

Persist == \E id \in DOMAIN pc : \E failure \in InsertFailures :
               persist_node(id, failure)

Finish == \E id \in DOMAIN pc : finish_node(id)

Completed == \E id \in DOMAIN pc : pipeline_completed(id)

\* One request, every answer of the external services.
Next ==
    \/ Submit
    \/ DirectCall
    \/ Start
    \/ Planner
    \/ Search
    \/ Refine
    \/ Crawl
    \/ Parse
    \/ Analysis
    \/ Persist
    \/ Finish
    \/ Completed

Spec == Init /\ [][Next]_vars

\* Several requests whose runs interleave, over the coarse answers.
SubmitMany ==
    \E request \in SearchRequests :
        Cardinality(DOMAIN pc) < MaxQueries /\ search_jobs(request)

SearchFew == \E id \in DOMAIN pc : \E response \in FewSearchResponses :
                 search_node(id, response)

ParseFew == \E id \in DOMAIN pc : \E pattern \in FewParsePatterns :
                job_parsing_node(id, pattern)

AnalysisFew == \E id \in DOMAIN pc : \E reply \in FewAnalysisReplies :
                   analysis_node(id, reply)

PersistFew == \E id \in DOMAIN pc : \E failure \in NoInsertFailure :
                  persist_node(id, failure)

NextConc ==
    \/ SubmitMany
    \/ Start
    \/ Planner
    \/ SearchFew
    \/ Refine
    \/ Crawl
    \/ ParseFew
    \/ AnalysisFew
    \/ PersistFew
    \/ Finish
    \/ Completed

SpecConc == Init /\ [][NextConc]_vars

\* One step of the background task of query id: the entry of
\* run_agent_pipeline, a graph node, or the return after the graph.
RunStep(id) ==
    \/ run_agent_pipeline(id)
    \/ planner_node(id)
    \/ \E response \in SearchResponses : search_node(id, response)
    \/ refine_query_node(id)
    \/ crawl_extract_node(id)
    \/ \E pattern \in ParsePatterns : job_parsing_node(id, pattern)
    \/ \E reply \in AnalysisReplies : analysis_node(id, reply)
    \/ \E failure \in InsertFailures : persist_node(id, failure)
    \/ pipeline_completed(id)
    \/ finish_node(id)

NextLive ==
    \/ Submit
    \/ Start
    \/ Planner
    \/ Search
    \/ Refine
    \/ Crawl
    \/ Parse
    \/ Analysis
    \/ Persist
    \/ Finish
    \/ Completed

\* The task runner schedules the queued background task, and every call the
\* task makes returns or raises: a task that can take a step takes it.
SpecLive ==
    /\ Init
    /\ [][NextLive]_vars
    /\ \A n \in 1..Len(OidOf) : WF_vars(RunStep(OidOf[n]))

\* A stored query whose record carries a time_filter, its run queued.
InitPlanner ==
    \E time_filter \in TimeFilters : \E request \in SearchRequests :
        /\ search_queries =
              [id \in {OidOf[1]} |->
                  [SearchQuery(request, 1) EXCEPT !.time_filter = time_filter]]
        /\ job_posts = << >>
        /\ summaries = << >>
        /\ pc = [id \in {OidOf[1]} |-> "start"]
        /\ state = [id \in {OidOf[1]} |-> NoState]
        /\ trace = [id \in {OidOf[1]} |-> << >>]
        /\ statusLog = [id \in {OidOf[1]} |-> << >>]
        /\ raised = [id \in {OidOf[1]} |-> NONE]
        /\ lastCall = NoCall
        /\ failureLog = [id \in {OidOf[1]} |-> << >>]
        /\ lastPoll = NoPoll

NextPlanner ==
    \/ Start
    \/ Planner
    \/ SearchFew
    \/ Refine
    \/ Crawl
    \/ ParseFew
    \/ AnalysisFew
    \/ PersistFew
    \/ Finish
    \/ Completed

SpecPlanner == InitPlanner /\ [][NextPlanner]_vars

Poll == \E search_query_id \in PollIds : get_search_status(search_query_id)

PollJobPosts == get_search_status_job_posts

PollSummaries == get_search_status_summaries

\* One request, every answer of the external services, and polls of the
\* query and of identifiers that no query has, at any moment of the run.
NextPoll ==
    \/ Submit
    \/ Start
    \/ Planner
    \/ Search
    \/ Refine
    \/ Crawl
    \/ Parse
    \/ Analysis
    \/ Persist
    \/ Finish
    \/ Completed
    \/ Poll
    \/ PollJobPosts
    \/ PollSummaries

SpecPoll == Init /\ [][NextPoll]_vars

----------------------------------------------------------------------------
(* Properties                                                              *)

Last(seq) == seq[Len(seq)]

StoredStatus(id) == search_queries[id].status

\* C1: every request the API accepted has its own SearchQuery record, stored
\* before its run starts: a queued run that has not started finds its record
\* with status PENDING, no run took the not-found return, and every accepted
\* request got a record of its own.
C1_RunFindsItsRecord ==
    /\ \A id \in DOMAIN pc :
          /\ id \in DOMAIN search_queries
          /\ pc[id] = "start" => StoredStatus(id) = "PENDING"
          /\ ~(pc[id] = "returned" /\ trace[id] = << >>)
    /\ Cardinality(DOMAIN search_queries) = Cardinality(DOMAIN pc)

\* A request was answered while the run of an earlier one is under way and
\* its own run has not started.
C1_Witness ==
    \E a, b \in DOMAIN pc :
        /\ pc[a] = "start" /\ StoredStatus(a) = "PENDING"
        /\ pc[b] \in Nodes /\ trace[b] # << >>

\* C2: in a run the search node executes at most 3 times and refine_query at
\* most 2 times; every other node executes at most once, and what follows a
\* refine_query is a search.
C2_BoundedSearchLoop ==
    \A id \in DOMAIN pc :
        /\ Count(trace[id], "search") <= 3
        /\ Count(trace[id], "refine_query") <= 2
        /\ \A node \in Nodes \ {"search", "refine_query"} :
              Count(trace[id], node) <= 1
        /\ \A k \in 1..Len(trace[id]) :
              trace[id][k] = "refine_query" =>
                  (IF k < Len(trace[id]) THEN trace[id][k + 1] ELSE pc[id])
                      = "search"

\* A run searched three times and refined twice.
C2_Witness ==
    \E id \in DOMAIN pc :
        /\ Count(trace[id], "search") = 3
        /\ Count(trace[id], "refine_query") = 2

\* The step is an execution of node by run id.
Executes(id, node) ==
    /\ id \in DOMAIN pc
    /\ pc[id] = node
    /\ trace'[id] = Append(trace[id], node)

\* The routing the search node is specified to have.
SearchRouting(id) ==
    pc'[id] = IF Len(state'[id].search_results) >= DefaultMinResults
              THEN "crawl_extract"
              ELSE IF state'[id].search_attempts < 3 THEN "refine_query"
              ELSE "finish"

\* A run out of attempts with too few results has gone to finish and entered
\* none of crawl_extract, job_parsing, analysis, persist.
ExhaustedRunFinishes(id) ==
    (/\ Count(trace[id], "search") = 3
     /\ Len(state[id].search_results) < DefaultMinResults)
    => /\ pc[id] = "finish" \/ "finish" \in {trace[id][k] : k \in 1..Len(trace[id])}
       /\ \A k \in 1..Len(trace[id]) :
             trace[id][k] \notin {"crawl_extract", "job_parsing", "analysis",
                                  "persist"}
       /\ pc[id] \notin {"crawl_extract", "job_parsing", "analysis", "persist"}

\* C3: after every execution of the search node the next node is
\* crawl_extract if that attempt has at least the threshold of results, else
\* refine_query if fewer than 3 attempts were made, else finish; a run whose
\* third attempt is still short reaches finish and never crawls, parses,
\* analyses or persists.
C3_SearchRouting ==
    /\ [][\A id \in DOMAIN pc : Executes(id, "search") => SearchRouting(id)]_vars
    /\ [](\A id \in DOMAIN pc : ExhaustedRunFinishes(id))

\* A run whose three attempts fell short (the last one because the adapter
\* raised) has executed finish.
C3_Witness ==
    \E id \in DOMAIN pc :
        /\ Count(trace[id], "search") = 3
        /\ Last(trace[id]) = "finish"
        /\ state[id].failed_urls # << >>
        /\ Last(state[id].failed_urls) = << "search_error:", "tavily down" >>

\* The status log s is monotonic in StatusOrder, repeats only SEARCHING, and
\* has nothing after FAILED.
MonotonicLog(s) ==
    /\ \A k \in 1..Len(s) : s[k] # "PENDING"
    /\ \A k \in 1..(Len(s) - 1) :
          /\ s[k] # "FAILED"
          /\ s[k + 1] # "FAILED" =>
                /\ Rank(s[k]) <= Rank(s[k + 1])
                /\ Rank(s[k]) = Rank(s[k + 1]) => s[k] = "SEARCHING"

\* C4: the values a run writes to its query's status never move back to an
\* earlier stage of PENDING .. COMPLETE; only SEARCHING is written again (at
\* most 3 times); FAILED can follow any stage; and the stored status is the
\* last value written.
C4_StatusMonotonic ==
    \A id \in DOMAIN pc :
        /\ MonotonicLog(statusLog[id])
        /\ Count(statusLog[id], "SEARCHING") <= 3
        /\ StoredStatus(id) =
              IF statusLog[id] = << >> THEN "PENDING" ELSE Last(statusLog[id])

\* A run wrote SEARCHING three times and went on to COMPLETE through every
\* stage.
C4_Witness ==
    \E id \in DOMAIN pc :
        /\ Count(statusLog[id], "SEARCHING") = 3
        /\ Count(statusLog[id], "PERSISTING") = 1
        /\ StoredStatus(id) = "COMPLETE"

\* C5: run_agent_pipeline never re-raises: no call of it, for any identifier,
\* ends by raising to its caller.
C5_NeverRaises == lastCall.outcome # "raised"

\* C6: a run whose graph raised an exception no node caught has returned with
\* the stored status FAILED and the exception text as error_message, and has
\* never written COMPLETE.
C6_UncaughtExceptionFails ==
    \A id \in DOMAIN pc :
        raised[id] # NONE =>
            /\ pc[id] = "returned"
            /\ StoredStatus(id) = "FAILED"
            /\ search_queries[id].error_message = raised[id]
            /\ Count(statusLog[id], "COMPLETE") = 0

\* persist raised while building the Summary, after the job posts went in.
C6_Witness ==
    \E id \in DOMAIN pc :
        /\ raised[id] = "Summary validation error"
        /\ Last(trace[id]) = "persist"
        /\ job_posts # << >>

\* C7: a call of run_agent_pipeline with a well-formed identifier that no
\* stored query has returns without raising, executes no graph node and
\* leaves the three collections as they were; no record is ever created
\* under that identifier.
C7_UnknownIdChangesNothing ==
    /\ [](/\ UnknownId \notin DOMAIN search_queries
          /\ UnknownId \notin DOMAIN trace
          /\ lastCall.id = UnknownId => lastCall.outcome = "returned")
    /\ [][(lastCall' # lastCall /\ lastCall'.id = UnknownId)
            => UNCHANGED <<search_queries, job_posts, summaries, trace, pc>>]_vars

\* The call was made against collections that hold records.
C7_Witness ==
    /\ lastCall = [id |-> UnknownId, outcome |-> "returned"]
    /\ search_queries # << >>
    /\ job_posts # << >>
    /\ summaries # << >>

\* C8: every stored JobPost has an apply_url that is neither empty nor "N/A";
\* the candidates a run carries out of job_parsing all have such an apply_url.
C8_StoredPostsHaveApplyUrl ==
    /\ \A i \in 1..Len(job_posts) : job_posts[i].apply_url \notin {NONE, "", "N/A"}
    /\ \A id \in DOMAIN pc : \A i \in 1..Len(state[id].job_posts) :
          state[id].job_posts[i].apply_url \notin {NONE, "", "N/A"}

\* Of six crawled pages one failed to parse and one posting was stored: the
\* postings the model marked valid without a usable apply_url were dropped.
C8_Witness ==
    /\ Len(job_posts) = 1
    /\ \E id \in DOMAIN pc :
          /\ Len(state[id].crawled_pages) = 6
          /\ Len(state[id].failed_urls) = 1
          /\ Last(trace[id]) = "persist"

SummariesOf(id) == {i \in 1..Len(summaries) : summaries[i].search_query_id = id}

\* C9: the summaries collection holds at most one Summary per search-query
\* identifier.
C9_OneSummaryPerQuery ==
    \A id \in HexIds : Cardinality(SummariesOf(id)) <= 1

\* Two interleaved runs have each stored their Summary.
C9_Witness ==
    \E a, b \in DOMAIN pc :
        /\ a # b
        /\ Cardinality(SummariesOf(a)) = 1
        /\ Cardinality(SummariesOf(b)) = 1

\* C10 as stated: whenever a Summary exists for a query, at least one job-post
\* candidate survived parsing in its run.
C10_SummaryImpliesPostings ==
    \A i \in 1..Len(summaries) :
        state[summaries[i].search_query_id].job_posts # << >>

\* C10 amended: a Summary exists for a query only if its run crawled at least
\* one page and executed the analysis node; when no candidate survived
\* parsing, the Summary is the fixed "no postings" one.
C10_SummaryOnlyAfterAnalysis ==
    \A i \in 1..Len(summaries) :
        LET id == summaries[i].search_query_id IN
        /\ id \in DOMAIN pc
        /\ state[id].crawled_pages # << >>
        /\ Count(trace[id], "analysis") = 1
        /\ state[id].job_posts = << >> =>
              summaries[i] = [ search_query_id |-> id, top_skills |-> << >>,
                               top_tech_stacks |-> << >>,
                               summary_text |->
                                 << "No job postings available for analysis." >> ]

\* A Summary was stored for a run in which no candidate survived parsing.
C10_Witness ==
    \E i \in 1..Len(summaries) :
        /\ state[summaries[i].search_query_id].job_posts = << >>
        /\ state[summaries[i].search_query_id].crawled_pages # << >>

\* C11: whenever a query's stored status is COMPLETE, its stored failed_urls
\* is, in order, the list of all failure descriptors the stages of its run
\* produced (and so is empty exactly when they produced none); it is also the
\* list the run's final state carries.
C11_StoredFailuresComplete ==
    \A id \in DOMAIN pc :
        StoredStatus(id) = "COMPLETE" =>
            /\ search_queries[id].failed_urls = failureLog[id]
            /\ state[id].failed_urls = failureLog[id]

\* A completed run whose search, crawl, parsing and analysis stages each
\* recorded a failure.
C11_Witness ==
    \E id \in DOMAIN pc :
        /\ StoredStatus(id) = "COMPLETE"
        /\ Len(search_queries[id].failed_urls) = 4
        /\ search_queries[id].failed_urls[1] = << "search_error:", "tavily down" >>
        /\ search_queries[id].failed_urls[4] = << "analysis_error:", "llm down" >>

\* The documents persist_node inserted for run id, as its state tells.
PersistedJobPosts(id) ==
    IF Count(trace[id], "persist") = 1
    THEN [i \in 1..Len(state[id].job_posts) |-> JobPost(id, state[id].job_posts[i])]
    ELSE << >>

PersistedSummaries(id) ==
    IF Count(trace[id], "persist") = 1
    THEN summary_documents(id, state[id])
    ELSE << >>

\* C12: a poll's response carries results if and only if the status the poll
\* read is COMPLETE; a COMPLETE response holds every JobPost and the Summary
\* the run persisted for that id, and they are still all the collections hold
\* for that id; in-progress and FAILED responses carry no results.
C12_ResultsIffComplete ==
    /\ lastPoll.step \in {"job_posts", "summaries"} => lastPoll.status = "COMPLETE"
    /\ (lastPoll.step = "responded" /\ lastPoll.code = HTTP_200) =>
          /\ lastPoll.results.present <=> lastPoll.status = "COMPLETE"
          /\ lastPoll.status # "COMPLETE" => lastPoll.results = NoResults
          /\ lastPoll.status = "COMPLETE" =>
                /\ lastPoll.results.job_posts = PersistedJobPosts(lastPoll.id)
                /\ lastPoll.results.summaries = PersistedSummaries(lastPoll.id)
                /\ lastPoll.results.job_posts = find(job_posts, lastPoll.id)
                /\ lastPoll.results.summaries = find(summaries, lastPoll.id)

\* A COMPLETE response with all six postings of the run and its Summary.
C12_Witness ==
    /\ lastPoll.step = "responded"
    /\ lastPoll.status = "COMPLETE"
    /\ lastPoll.results.present
    /\ Len(lastPoll.results.job_posts) = 6
    /\ Len(lastPoll.results.summaries) = 1

\* C13: a poll with a malformed identifier is answered 400 and a poll with a
\* well-formed identifier that no stored query has is answered 404, whatever
\* the collections hold; neither response carries a status or results, and
\* the poll leaves the three collections unchanged.
C13_BadIdentifierPolls ==
    /\ [](/\ lastPoll.id = MalformedId => lastPoll.code = HTTP_400
          /\ lastPoll.id = UnknownId => lastPoll.code = HTTP_404
          /\ lastPoll.code \in {HTTP_400, HTTP_404} =>
                /\ lastPoll.status = NONE
                /\ lastPoll.results = NoResults)
    /\ [][lastPoll' # lastPoll
            => UNCHANGED <<search_queries, job_posts, summaries>>]_vars

\* A malformed identifier was answered 400 while the collections hold
\* records.
C13_Witness ==
    /\ lastPoll.id = MalformedId
    /\ lastPoll.code = HTTP_400
    /\ search_queries # << >>
    /\ job_posts # << >>
    /\ summaries # << >>

\* The run of id has returned and met the conditions of the success path: its
\* first search attempt returned at least the threshold of results, each of
\* them crawlable, every page gave a posting that passed the apply_url
\* filter, and the analysis call did not raise.
SuccessPathInputs(id) ==
    LET st == state[id] IN
    /\ pc[id] = "returned"
    /\ st.search_attempts = 1
    /\ Len(st.search_results) >= DefaultMinResults
    /\ \A i \in 1..Len(st.search_results) :
          /\ st.search_results[i].is_dict
          /\ Truthy(st.search_results[i].url)
          /\ st.search_results[i].raw_text = "html"
    /\ Len(st.job_posts) = Len(st.search_results)
    /\ st.analysis.summary_text # << >> =>
          st.analysis.summary_text[1] # "Analysis failed: "

SuccessPathOutcome(id) ==
    /\ trace[id] = << "planner", "search", "crawl_extract", "job_parsing",
                      "analysis", "persist" >>
    /\ StoredStatus(id) = "COMPLETE"
    /\ Len(find(job_posts, id)) = Len(state[id].search_results)
    /\ Cardinality(SummariesOf(id)) = 1
    /\ search_queries[id].failed_urls = << >>
    /\ failureLog[id] = << >>

BaseQuery(id) ==
    << "\"", search_queries[id].job_title, "\" job posting with ",
       search_queries[id].experience_level, " experience in ",
       search_queries[id].location,
       " site:greenhouse.io OR site:lever.co OR site:linkedin.com/jobs" >>

\* The step is the planner's, and leaves base followed by fragment.
PlannerAppends(id, fragment) ==
    state'[id].search_query_string = BaseQuery(id) \o fragment

AnalysisFailed(id) ==
    /\ failureLog[id] # << >>
    /\ Last(failureLog[id])[1] = "analysis_error:"

AnalysisErrors(failures) ==
    {k \in 1..Len(failures) : failures[k][1] = "analysis_error:"}

\* C16 as stated: a run whose analysis call failed still ends COMPLETE.
C16_FailedAnalysisEndsComplete ==
    \A id \in DOMAIN pc :
        (AnalysisFailed(id) /\ pc[id] = "returned") => StoredStatus(id) = "COMPLETE"

\* The analysis step in which the language model failed: empty top_skills
\* and top_tech_stacks, a summary_text that begins "Analysis failed: ", one
\* analysis_error: descriptor appended to the run's list and stored, and
\* persist next.
AnalysisFailureStep(id) ==
    LET before == state[id].failed_urls
        after == state'[id].failed_urls
    IN  /\ state'[id].analysis.top_skills = << >>
        /\ state'[id].analysis.top_tech_stacks = << >>
        /\ state'[id].analysis.summary_text[1] = "Analysis failed: "
        /\ Len(after) = Len(before) + 1
        /\ SubSeq(after, 1, Len(before)) = before
        /\ Last(after)[1] = "analysis_error:"
        /\ search_queries'[id].failed_urls = after
        /\ search_queries'[id].status = "ANALYZING"
        /\ pc'[id] = "persist"

\* C16 amended: a language-model failure in the analysis stage is recorded
\* as stated and the run proceeds to persist; it ends COMPLETE, with the
\* "Analysis failed: " Summary stored and exactly one analysis_error:
\* descriptor, unless persist itself raises, in which case it ends FAILED.
C16_FailedAnalysisIsRecorded ==
    /\ [][\A id \in DOMAIN pc :
            (Executes(id, "analysis") /\ failureLog'[id] # failureLog[id])
            => AnalysisFailureStep(id)]_vars
    /\ [](\A id \in DOMAIN pc :
            (AnalysisFailed(id) /\ pc[id] = "returned") =>
                /\ Last(trace[id]) = "persist"
                /\ Cardinality(AnalysisErrors(search_queries[id].failed_urls)) = 1
                /\ StoredStatus(id) = IF raised[id] = NONE THEN "COMPLETE" ELSE "FAILED"
                /\ raised[id] = NONE =>
                      \E i \in SummariesOf(id) :
                          /\ summaries[i].summary_text[1] = "Analysis failed: "
                          /\ summaries[i].top_skills = << >>
                          /\ summaries[i].top_tech_stacks = << >>)

\* A run whose analysis call failed stored its postings and the failure
\* Summary and ended COMPLETE.
C16_Witness ==
    \E id \in DOMAIN pc :
        /\ AnalysisFailed(id)
        /\ StoredStatus(id) = "COMPLETE"
        /\ job_posts # << >>
        /\ \E i \in SummariesOf(id) : summaries[i].summary_text[1] = "Analysis failed: "

\* The step is one of run a.
StepOf(a) == a \in DOMAIN pc /\ pc'[a] # pc[a]

\* The step writes no SearchQuery record but a's, and adds only documents
\* that carry a's identifier; it removes and rewrites none.
WritesOnlyOwn(a) ==
    /\ DOMAIN search_queries' = DOMAIN search_queries
    /\ \A b \in DOMAIN search_queries \ {a} : search_queries'[b] = search_queries[b]
    /\ IsPrefix(job_posts, job_posts')
    /\ \A i \in (Len(job_posts) + 1)..Len(job_posts') :
          job_posts'[i].search_query_id = a
    /\ IsPrefix(summaries, summaries')
    /\ \A i \in (Len(summaries) + 1)..Len(summaries') :
          summaries'[i].search_query_id = a
    /\ \A b \in DOMAIN state \ {a} : state'[b] = state[b]

\* What the query of a returned run holds is what that run alone produced:
\* its status, its failure list, its JobPosts and its Summary.
OutcomeIsOwn(id) ==
    pc[id] = "returned" =>
        /\ StoredStatus(id) = IF raised[id] = NONE THEN "COMPLETE" ELSE "FAILED"
        /\ search_queries[id].failed_urls = failureLog[id]
        /\ find(job_posts, id) = PersistedJobPosts(id)
        /\ find(summaries, id) = PersistedSummaries(id)

\* C17: however the runs of distinct queries and the requests interleave,
\* every step of a run writes only the SearchQuery record of its own
\* identifier and adds only JobPost and Summary records that carry it; an
\* accepted request leaves the existing records as they are; and the final
\* status, failure list, JobPosts and Summary of each query are those its
\* own run produced.
C17_RunsAreIndependent ==
    /\ [][\A a \in DOMAIN pc : StepOf(a) => WritesOnlyOwn(a)]_vars
    /\ [][DOMAIN pc' # DOMAIN pc =>
            /\ \A b \in DOMAIN search_queries : search_queries'[b] = search_queries[b]
            /\ UNCHANGED <<job_posts, summaries>>]_vars
    /\ [](\A id \in DOMAIN pc : OutcomeIsOwn(id))

\* Two runs have returned with postings stored for each and with different
\* failure lists.
C17_Witness ==
    \E a, b \in DOMAIN pc :
        /\ a # b
        /\ pc[a] = "returned" /\ pc[b] = "returned"
        /\ find(job_posts, a) # << >>
        /\ find(job_posts, b) # << >>
        /\ search_queries[a].failed_urls = << >>
        /\ search_queries[b].failed_urls # << >>

Terminal == {"COMPLETE", "FAILED"}

NodeStatus ==
    [ planner |-> "PLANNING", search |-> "SEARCHING", crawl_extract |-> "CRAWLING",
      job_parsing |-> "PARSING", analysis |-> "ANALYZING", persist |-> "PERSISTING" ]

\* C19 as stated: every node, refine_query and finish included, writes a
\* status for the run's query when it is entered.
C19_EveryNodeWritesStatus ==
    [][\A id \in DOMAIN pc : \A node \in Nodes :
        Executes(id, node) => Len(statusLog'[id]) > Len(statusLog[id])]_vars

\* C19 amended: planner, search, crawl_extract, job_parsing, analysis and
\* persist each write their own status (PLANNING, SEARCHING, CRAWLING,
\* PARSING, ANALYZING, PERSISTING) on entry, before anything else they write;
\* refine_query and finish write no status and leave the query's record as
\* it is.
C19_StageNodesWriteStatus ==
    [][\A id \in DOMAIN pc :
        /\ \A node \in DOMAIN NodeStatus :
              Executes(id, node) =>
                  /\ IsPrefix(Append(statusLog[id], NodeStatus[node]), statusLog'[id])
                  /\ search_queries'[id].status \in {NodeStatus[node], "FAILED"}
                  /\ search_queries'[id].status = "FAILED" => node = "persist"
        /\ \A node \in {"refine_query", "finish"} :
              Executes(id, node) =>
                  /\ statusLog'[id] = statusLog[id]
                  /\ search_queries' = search_queries]_vars

\* A run executed refine_query twice and finish, and wrote PLANNING once and
\* SEARCHING three times, nothing else.
C19_Witness ==
    \E id \in DOMAIN pc :
        /\ trace[id] = << "planner", "search", "refine_query", "search",
                          "refine_query", "search", "finish" >>
        /\ statusLog[id] = << "PLANNING", "SEARCHING", "SEARCHING", "SEARCHING" >>
        /\ StoredStatus(id) = "SEARCHING"

\* The fields of a SearchQuery record a status update has no business with.
OtherFields ==
    {"job_title", "experience_level", "location", "created_at", "failed_urls",
     "time_filter"}

\* What update_status_in_db(id, status, message) makes of the stored records.
StatusUpdateFrame(id, status, message) ==
    LET after == update_status_in_db(search_queries, id, status, message) IN
    /\ DOMAIN after = DOMAIN search_queries
    /\ \A other \in DOMAIN search_queries \ {id} : after[other] = search_queries[other]
    /\ id \in DOMAIN search_queries =>
          /\ after[id].status = status
          /\ after[id].error_message = message      \* NONE: the field is absent
          /\ \A field \in OtherFields : after[id][field] = search_queries[id][field]
    /\ ~is_valid(id) => after = search_queries

\* C20: applied to any records the program can hold, a status update sets
\* the status of the addressed record, sets its error_message when a message
\* is given and removes it when none is, and leaves every other field of
\* that record and every other record as they were; addressed by a malformed
\* identifier it changes nothing.  In the runs, a step that writes no failure
\* list leaves the failure list stored.
C20_StatusUpdateTouchesOnlyStatus ==
    /\ [](\A id \in HexIds \cup {MalformedId} :
            \A status \in {"SEARCHING", "COMPLETE", "FAILED"} :
                \A message \in {NONE, "", "insert_one failed"} :
                    StatusUpdateFrame(id, status, message))
    /\ [][\A id \in DOMAIN pc :
            (id \in DOMAIN search_queries /\ statusLog'[id] # statusLog[id]) =>
                /\ \A field \in OtherFields \ {"failed_urls"} :
                      search_queries'[id][field] = search_queries[id][field]
                /\ failureLog'[id] = failureLog[id] =>
                      search_queries'[id].failed_urls = search_queries[id].failed_urls]_vars

\* A record holds an error message and a failure list: an update without a
\* message has a message to clear and a list to keep.
C20_Witness ==
    \E id \in DOMAIN search_queries :
        /\ search_queries[id].error_message = "insert_one failed"
        /\ search_queries[id].failed_urls # << >>
        /\ update_status_in_db(search_queries, id, "COMPLETE", NONE)[id].error_message = NONE
        /\ update_status_in_db(search_queries, id, "COMPLETE", NONE)[id].failed_urls
               = search_queries[id].failed_urls

\* The search results of run id that give a page entry: a dict with a url
\* and text, which the apply-link extractor takes.
PageResults(id) ==
    {i \in 1..Len(state[id].search_results) :
        /\ state[id].search_results[i].is_dict
        /\ Truthy(state[id].search_results[i].url)
        /\ state[id].search_results[i].raw_text = "html"}

\* Those on which the extractor raises.
RaisingResults(id) ==
    {i \in 1..Len(state[id].search_results) :
        /\ state[id].search_results[i].is_dict
        /\ Truthy(state[id].search_results[i].url)
        /\ state[id].search_results[i].raw_text = "unparsable"}

\* C21: after crawl_extract the run goes to job_parsing if and only if at
\* least one search result gave a page entry, and to finish otherwise; one
\* page entry is made per such result, and a failure descriptor is added only
\* for a result on which the extractor raised, none for a result without url
\* or text or for a non-dict result; a run that crawled no page executes
\* finish next and ends COMPLETE with no JobPost and no Summary.
C21_CrawlRouting ==
    /\ [][\A id \in DOMAIN pc :
            Executes(id, "crawl_extract") =>
                /\ pc'[id] = IF PageResults(id) # {} THEN "job_parsing" ELSE "finish"
                /\ Len(state'[id].crawled_pages) = Cardinality(PageResults(id))
                /\ IsPrefix(state[id].failed_urls, state'[id].failed_urls)
                /\ Len(state'[id].failed_urls) =
                      Len(state[id].failed_urls) + Cardinality(RaisingResults(id))]_vars
    /\ [](\A id \in DOMAIN pc :
            (/\ Count(trace[id], "crawl_extract") = 1
             /\ state[id].crawled_pages = << >>
             /\ pc[id] # "crawl_extract") =>
                /\ pc[id] \in {"finish", "end", "returned"}
                /\ pc[id] # "finish" => Last(trace[id]) = "finish"
                /\ Count(trace[id], "job_parsing") = 0
                /\ Count(trace[id], "persist") = 0
                /\ find(job_posts, id) = << >>
                /\ find(summaries, id) = << >>
                /\ pc[id] = "returned" => StoredStatus(id) = "COMPLETE")

\* Six results, none of them a dict: no page, no failure descriptor, and
\* the run ended COMPLETE through finish with nothing stored.
C21_Witness ==
    \E id \in DOMAIN pc :
        /\ Len(state[id].search_results) = 6
        /\ \A i \in 1..6 : ~state[id].search_results[i].is_dict
        /\ trace[id] = << "planner", "search", "crawl_extract", "finish" >>
        /\ state[id].failed_urls = << >>
        /\ StoredStatus(id) = "COMPLETE"
        /\ job_posts = << >> /\ summaries = << >>

\* C22: in every step the failure list in a run's state keeps what it held
\* and grows only at its end, and the failure list stored in its query's
\* record keeps what it held and grows only at its end; the stored list is
\* always a prefix of the list in the state.
C22_FailuresAppendOnly ==
    /\ [][\A id \in DOMAIN pc :
            /\ IsPrefix(state[id].failed_urls, state'[id].failed_urls)
            /\ id \in DOMAIN search_queries =>
                  IsPrefix(search_queries[id].failed_urls,
                           search_queries'[id].failed_urls)]_vars
    /\ [](\A id \in DOMAIN pc :
            id \in DOMAIN search_queries =>
                IsPrefix(search_queries[id].failed_urls, state[id].failed_urls))

\* The stored list was written by the search, crawl and parsing stages in
\* turn and holds their three descriptors in that order.
C22_Witness ==
    \E id \in DOMAIN pc :
        /\ pc[id] = "analysis"
        /\ Len(search_queries[id].failed_urls) = 3
        /\ search_queries[id].failed_urls[1][1] = "search_error:"
        /\ search_queries[id].failed_urls[2][2] = ":"
        /\ search_queries[id].failed_urls[3][1] = "parse_error:"

\* The record has an error_message field.
HasErrorMessage(record) == record.error_message # NONE

\* C23: in every state, a stored query record has an error_message exactly
\* when its status is FAILED; every step in which a run writes a status
\* leaves its record with a message if the status is FAILED and without one
\* otherwise; and on any stored record a status write without a message
\* removes the field while one with a message sets it.
C23_ErrorMessageIffFailed ==
    /\ [](\A id \in DOMAIN search_queries :
            HasErrorMessage(search_queries[id]) <=> StoredStatus(id) = "FAILED")
    /\ [][\A id \in DOMAIN pc :
            (id \in DOMAIN search_queries /\ statusLog'[id] # statusLog[id]) =>
                /\ search_queries'[id].status = Last(statusLog'[id])
                /\ HasErrorMessage(search_queries'[id])
                      <=> Last(statusLog'[id]) = "FAILED"]_vars
    /\ [](\A id \in DOMAIN search_queries :
            /\ ~HasErrorMessage(
                   update_status_in_db(search_queries, id, "COMPLETE", NONE)[id])
            /\ update_status_in_db(search_queries, id, "FAILED",
                                   "Search query not found.")[id].error_message
                   = "Search query not found.")

\* A run failed in persist on a posting without a title: its record is
\* FAILED and carries the exception text.
C23_Witness ==
    \E id \in DOMAIN pc :
        /\ StoredStatus(id) = "FAILED"
        /\ search_queries[id].error_message = "JobPost validation error"
        /\ Len(statusLog[id]) >= 2
        /\ statusLog[id][Len(statusLog[id]) - 1] = "PERSISTING"

====
